---- MODULE Spec2Model ----
(***************************************************************************)
(* Verification model of the client-side photo pipeline of the CV maker:   *)
(*   - MasterPhotoCapture   (the workflow orchestrator),                   *)
(*   - MobileCropTool       (crop region, drag / pinch gestures),          *)
(*   - EnhancedPhotoCapture and SimplePhotoUploader (file ingestion).      *)
(* Each component has its own specification over the shared variables:     *)
(*   Spec       the orchestrator and its asynchronous stage units,         *)
(*   SpecCrop   the crop tool,                                             *)
(*   SpecIngest the two file ingestion paths,                              *)
(*   SpecCamera the camera of EnhancedPhotoCapture,                        *)
(*   SpecReenter the crop stage: the orchestrator with the crop tool,      *)
(*   SpecLive   the orchestrator under fair scheduling of its callbacks.   *)
(***************************************************************************)
EXTENDS Integers, Sequences, FiniteSets, TLC

(***************************************************************************)
(* Bounds of the model.                                                    *)
(***************************************************************************)
\* object URLs (artifacts) that may be allocated in one behaviour
MaxUrl == 7
\* asynchronous units of one kind that may be outstanding at the same time
MaxPending == 1
\* fingers that may touch the crop container at the same time
MaxTouches == 2
\* events and button clicks that one behaviour of the crop tool may contain
MaxEvents == 5
\* camera streams that getUserMedia may hand out in one behaviour
MaxStreams == 3
\* getUserMedia requests that may be outstanding at the same time
MaxGum == 2
\* Date.now() of the chat route advances at most this many ticks of 30 s
MaxClock == 5

VARIABLES
    \* ---- MasterPhotoCapture ----
    currentStep,      \* WorkflowStep
    capturedImage,    \* object URL, Empty = ''
    croppedImage,
    enhancedImage,
    finalImage,
    processingStep,   \* text of the processing indicator, "" = hidden
    cropBlobs,        \* MobileCropTool.applyCrop toBlob callbacks outstanding
    resizing,         \* handleCropComplete units awaiting ImageProcessor.resizeImage
    filtering,        \* handleEnhanceComplete units awaiting ImageProcessor.applyFilters
    templating,       \* applyTemplate units outstanding of the mounted CVPhotoTemplates
    templatingOld,    \* applyTemplate units outstanding of unmounted CVPhotoTemplates
    tplIsProcessing,  \* CVPhotoTemplates.isProcessing
    bgJobs,           \* BackgroundRemoval.removeBackground units outstanding
    delivered,        \* last URL handed to the onPhotoComplete callback
    nextUrl,          \* next object URL that URL.createObjectURL returns
    revoked,          \* the object URLs that URL.revokeObjectURL was called on
    lastOp,           \* the operation that produced the current state
    \* ---- MobileCropTool ----
    containerWidth,   \* width of the crop container in px (its height is fixed)
    aspectRatio,      \* the aspectRatio prop, width/height as [num, den]
    cropData,         \* CropData, zoom in tenths
    isDragging,
    isPinching,
    lastTouchDistance,
    dragStart,        \* TouchPoint
    touches,          \* the touch points currently on the container (e.touches)
    events,           \* number of events the crop tool has handled
    \* ---- EnhancedPhotoCapture ----
    epcActiveMode,    \* activeMode
    epcSelectedImage, \* selectedImage, Null or the data URL of a file
    epcCurrentStep,   \* currentStep of the capture component
    epcReaders,       \* FileReaders of handleFileUpload that are still reading
    \* ---- SimplePhotoUploader ----
    spuSelectedImage, \* selectedImage
    spuReaders,       \* FileReaders of handleFileSelect that are still reading
    lastFile,         \* the file of the last change event of a file input
    \* ---- EnhancedPhotoCapture, camera ----
    epcMounted,       \* the component instance is mounted
    isStreaming,
    streamRef,        \* streamRef.current, NoStream = null
    gumPending,       \* getUserMedia promises of startCamera not settled yet
    trackStops,       \* per acquired stream, the number of stop() calls on its track
    nextStream,       \* next MediaStream that getUserMedia resolves with
    cameraError,      \* what became of the last getUserMedia rejection
    \* ---- the raster of the crop stage ----
    raster,           \* width and height of the canvas that applyCrop / resizeImage drew
    rasterRatio,      \* the aspectRatio prop when applyCrop drew the raster
    \* ---- CVPhotoTemplates, the canvas ----
    selectedTemplate, \* id of the template of the last applyTemplate call
    tplImg,           \* the image applyTemplate waits for, NoImg = none
    tplCanvas,        \* the draw operations on the canvas, in the order drawn
    \* ---- BackgroundRemoval under MasterPhotoCapture ----
    bgImageUrl,       \* the imageUrl prop = enhancedImage, Empty = not mounted
    bgEffectDue,      \* a render gave removeBackground a new identity, effect not run yet
    bgLoading,        \* the image URLs that removeBackground runs are working on
    \* ---- api/ai/chat route: the rate limiter ----
    clock,            \* Date.now(), in ticks of 30 s
    rateLimitMap,     \* per ip, NoLimit or { count, resetTime }
    lastCheck,        \* ip and return value of the last checkRateLimit call
    windowOpened,     \* history, per ip: when the request that opened its window came
    admittedInWindow, \* history, per ip: requests admitted in that window
    \* ---- Home and Dashboard: sessions and localStorage ----
    session,          \* session.user.email, NoSession = no NextAuth session
    isLoggedIn,       \* localStorage 'isLoggedIn' and the state of Home
    currentCV,        \* localStorage 'currentCV': whose data it holds, NoCV = no item
    userBackup        \* per email, currentCV of localStorage 'user_backup_<email>'

\* the orchestrator's variables but lastOp
wfState == <<currentStep, capturedImage, croppedImage, enhancedImage, finalImage,
             processingStep, cropBlobs, resizing, filtering, templating,
             templatingOld, tplIsProcessing, bgJobs, delivered, nextUrl, revoked>>

wfVars == <<currentStep, capturedImage, croppedImage, enhancedImage, finalImage,
            processingStep, cropBlobs, resizing, filtering, templating,
            templatingOld, tplIsProcessing, bgJobs, delivered, nextUrl, revoked,
            lastOp>>

cropVars == <<containerWidth, aspectRatio, cropData, isDragging, isPinching,
              lastTouchDistance, dragStart, touches, events>>

ingestVars == <<epcActiveMode, epcSelectedImage, epcCurrentStep, epcReaders,
                spuSelectedImage, spuReaders, lastFile>>

camVars == <<epcMounted, isStreaming, streamRef, gumPending, trackStops,
             nextStream, cameraError>>

rasterVars == <<raster, rasterRatio>>

tplVars == <<selectedTemplate, tplImg, tplCanvas>>

\* the variables of the components outside the photo capture components
bgVars == <<bgImageUrl, bgEffectDue, bgLoading>>

rlVars == <<clock, rateLimitMap, lastCheck, windowOpened, admittedInWindow>>

homeVars == <<session, isLoggedIn, currentCV, userBackup>>

extVars == <<rasterVars, tplVars, bgVars, rlVars, homeVars>>

vars == <<wfVars, cropVars, ingestVars, camVars, extVars>>

(***************************************************************************)
(* MasterPhotoCapture                                                      *)
(***************************************************************************)
\* the empty string of the useState<string>('') artifacts
Empty == 0

steps == <<"capture", "crop", "enhance", "templates", "final">>

indexOf(s) == CHOOSE i \in 1..Len(steps) : steps[i] = s

\* canGoNext as it would be if the Next button were never disabled
canGoNextAlways == TRUE

canGoNext ==
    CASE currentStep = "capture"   -> capturedImage # Empty
      [] currentStep = "crop"      -> croppedImage # Empty
      [] currentStep = "enhance"   -> enhancedImage # Empty
      [] currentStep = "templates" -> finalImage # Empty
      [] currentStep = "final"     -> TRUE

canGoPrev == currentStep # "capture"

\* the navigation footer is rendered in every step but final
footerShown == currentStep # "final"

\* CVPhotoTemplates is rendered in step templates only: when the step leaves
\* templates the instance unmounts, a later instance starts with
\* isProcessing = false, and the units of the old instance stay outstanding
tplFollows(newStep) ==
    IF currentStep = "templates" /\ newStep # "templates"
    THEN /\ tplIsProcessing' = FALSE
         /\ templating' = 0
         /\ templatingOld' = templatingOld + templating
    ELSE UNCHANGED <<tplIsProcessing, templating, templatingOld>>

\* ---- the crop region of MobileCropTool as the orchestrator mounts it:
\* lengths are CSS pixels, the zoom is kept in tenths (10 = 1.0) ----
\* h-96 of the crop container
ContainerHeight == 384

Num(v) == [nan |-> FALSE, val |-> v]

Min(a, b) == IF a <= b THEN a ELSE b

\* w / aspectRatio
divRatio(w, r) == (w * r.den) \div r.num

\* the useState value of cropData
DefaultCropData ==
    [x |-> 0, y |-> 0, width |-> 300, height |-> 450, zoom |-> Num(10), rotation |-> 0]

\* the initialisation effect as it would be if it set the width and the
\* position only
initCropAreaKeepsHeight(prev, w, r) ==
    LET cropWidth == Min(300, (w * 8) \div 10)
    IN  [prev EXCEPT !.width = cropWidth,
                     !.x = (w - cropWidth) \div 2,
                     !.y = (ContainerHeight - prev.height) \div 2]

\* the crop-area initialisation effect, run on mount and when aspectRatio changes
initCropArea(prev, w, r) ==
    LET cropWidth == Min(300, (w * 8) \div 10)
        cropHeight == divRatio(cropWidth, r)
    IN  [prev EXCEPT !.width = cropWidth,
                     !.height = cropHeight,
                     !.x = (w - cropWidth) \div 2,
                     !.y = (ContainerHeight - cropHeight) \div 2]

\* MobileCropTool is rendered in step crop while capturedImage is set: when
\* the step enters crop a new instance mounts, with the useState values and
\* the initialisation effect run once.  While no instance is rendered the
\* crop variables keep the values of the last instance.
cropToolFollows(newStep) ==
    IF currentStep # "crop" /\ newStep = "crop" /\ capturedImage' # Empty
    THEN /\ cropData' = initCropArea(DefaultCropData, containerWidth, aspectRatio)
         /\ isDragging' = FALSE
         /\ isPinching' = FALSE
         /\ lastTouchDistance' = 0
         /\ dragStart' = <<0, 0>>
         /\ touches' = <<>>
         /\ UNCHANGED <<containerWidth, aspectRatio, events>>
    ELSE UNCHANGED cropVars

\* URL.createObjectURL: a URL that was never handed out before
CanAlloc == nextUrl <= MaxUrl

WfInit ==
    /\ currentStep = "capture"
    /\ capturedImage = Empty
    /\ croppedImage = Empty
    /\ enhancedImage = Empty
    /\ finalImage = Empty
    /\ processingStep = ""
    /\ cropBlobs = 0
    /\ resizing = 0
    /\ filtering = 0
    /\ templating = 0
    /\ templatingOld = 0
    /\ tplIsProcessing = FALSE
    /\ bgJobs = 0
    /\ delivered = Empty
    /\ nextUrl = 1
    /\ revoked = {}
    /\ lastOp = "init"

\* EnhancedPhotoCapture (rendered in step capture) hands over its edited
\* image; the step leaves capture, so EnhancedPhotoCapture is torn down and
\* its cleanup revokes the edited image it has just handed over
handlePhotoCaptured ==
    /\ currentStep = "capture"
    /\ CanAlloc
    /\ capturedImage' = nextUrl
    /\ nextUrl' = nextUrl + 1
    /\ currentStep' = "crop"
    /\ revoked' = revoked \cup {nextUrl}
    /\ cropToolFollows("crop")
    /\ lastOp' = "handlePhotoCaptured"
    /\ UNCHANGED extVars
    /\ UNCHANGED <<ingestVars, camVars>>
    /\ UNCHANGED <<croppedImage, enhancedImage, finalImage, processingStep,
                   cropBlobs, resizing, filtering, templating, templatingOld, tplIsProcessing,
                   bgJobs, delivered>>

\* MobileCropTool.applyCrop: draws and asks the canvas for a blob
applyCrop ==
    /\ currentStep = "crop"
    /\ capturedImage # Empty
    /\ cropBlobs < MaxPending
    /\ cropBlobs' = cropBlobs + 1
    /\ lastOp' = "applyCrop"
    /\ UNCHANGED extVars
    /\ UNCHANGED <<cropVars, ingestVars, camVars>>
    /\ UNCHANGED revoked
    /\ UNCHANGED <<currentStep, capturedImage, croppedImage, enhancedImage,
                   finalImage, processingStep, resizing, filtering, templating, templatingOld,
                   tplIsProcessing, bgJobs, delivered, nextUrl>>

\* the toBlob callback of applyCrop calls onCropComplete = handleCropComplete,
\* which runs up to its await
handleCropComplete ==
    /\ cropBlobs > 0
    /\ resizing < MaxPending
    /\ CanAlloc
    /\ cropBlobs' = cropBlobs - 1
    /\ nextUrl' = nextUrl + 1
    /\ processingStep' = "Optimizing image..."
    /\ resizing' = resizing + 1
    /\ lastOp' = "handleCropComplete"
    /\ UNCHANGED extVars
    /\ UNCHANGED <<cropVars, ingestVars, camVars>>
    /\ UNCHANGED revoked
    /\ UNCHANGED <<currentStep, capturedImage, croppedImage, enhancedImage,
                   finalImage, filtering, templating, templatingOld, tplIsProcessing, bgJobs,
                   delivered>>

\* applyCrop's canvas yields no blob: onCropComplete is not called
cropBlobNull ==
    /\ cropBlobs > 0
    /\ cropBlobs' = cropBlobs - 1
    /\ lastOp' = "cropBlobNull"
    /\ UNCHANGED extVars
    /\ UNCHANGED <<cropVars, ingestVars, camVars>>
    /\ UNCHANGED revoked
    /\ UNCHANGED <<currentStep, capturedImage, croppedImage, enhancedImage,
                   finalImage, processingStep, resizing, filtering, templating, templatingOld,
                   tplIsProcessing, bgJobs, delivered, nextUrl>>

\* resizeImage resolves: the rest of handleCropComplete runs
resizeResolved ==
    /\ resizing > 0
    /\ CanAlloc
    /\ resizing' = resizing - 1
    /\ croppedImage' = nextUrl
    /\ nextUrl' = nextUrl + 1
    /\ currentStep' = "enhance"
    /\ processingStep' = ""
    /\ tplFollows("enhance")
    /\ lastOp' = "resizeResolved"
    /\ UNCHANGED extVars
    /\ UNCHANGED <<cropVars, ingestVars, camVars>>
    /\ UNCHANGED revoked
    /\ UNCHANGED <<capturedImage, enhancedImage, finalImage, cropBlobs,
                   filtering, bgJobs, delivered>>

\* resizeImage never settles (the image does not load, no context, no blob)
resizeNeverSettles ==
    /\ resizing > 0
    /\ resizing' = resizing - 1
    /\ lastOp' = "resizeNeverSettles"
    /\ UNCHANGED extVars
    /\ UNCHANGED <<cropVars, ingestVars, camVars>>
    /\ UNCHANGED revoked
    /\ UNCHANGED <<currentStep, capturedImage, croppedImage, enhancedImage,
                   finalImage, processingStep, cropBlobs, filtering, templating, templatingOld,
                   tplIsProcessing, bgJobs, delivered, nextUrl>>

\* the Auto-Enhance button: handleEnhanceComplete(croppedImage) up to its await
handleEnhanceComplete ==
    /\ currentStep = "enhance"
    /\ croppedImage # Empty
    /\ filtering < MaxPending
    /\ processingStep' = "Applying background removal..."
    /\ filtering' = filtering + 1
    /\ lastOp' = "handleEnhanceComplete"
    /\ UNCHANGED extVars
    /\ UNCHANGED <<cropVars, ingestVars, camVars>>
    /\ UNCHANGED revoked
    /\ UNCHANGED <<currentStep, capturedImage, croppedImage, enhancedImage,
                   finalImage, cropBlobs, resizing, templating, templatingOld, tplIsProcessing,
                   bgJobs, delivered, nextUrl>>

\* applyFilters resolves: the rest of handleEnhanceComplete runs
filtersResolved ==
    /\ filtering > 0
    /\ CanAlloc
    /\ filtering' = filtering - 1
    /\ enhancedImage' = nextUrl
    /\ nextUrl' = nextUrl + 1
    /\ currentStep' = "templates"
    /\ processingStep' = ""
    /\ lastOp' = "filtersResolved"
    /\ UNCHANGED extVars
    /\ UNCHANGED <<cropVars, ingestVars, camVars>>
    /\ UNCHANGED revoked
    /\ UNCHANGED <<capturedImage, croppedImage, finalImage, cropBlobs, resizing,
                   templating, templatingOld, tplIsProcessing, bgJobs, delivered>>

\* applyFilters never settles
filtersNeverSettle ==
    /\ filtering > 0
    /\ filtering' = filtering - 1
    /\ lastOp' = "filtersNeverSettle"
    /\ UNCHANGED extVars
    /\ UNCHANGED <<cropVars, ingestVars, camVars>>
    /\ UNCHANGED revoked
    /\ UNCHANGED <<currentStep, capturedImage, croppedImage, enhancedImage,
                   finalImage, processingStep, cropBlobs, resizing, templating, templatingOld,
                   tplIsProcessing, bgJobs, delivered, nextUrl>>

\* a template button of CVPhotoTemplates (disabled while isProcessing)
applyTemplate ==
    /\ currentStep = "templates"
    /\ enhancedImage # Empty
    /\ ~tplIsProcessing
    /\ templating + templatingOld < MaxPending
    /\ tplIsProcessing' = TRUE
    /\ templating' = templating + 1
    /\ lastOp' = "applyTemplate"
    /\ UNCHANGED extVars
    /\ UNCHANGED <<cropVars, ingestVars, camVars>>
    /\ UNCHANGED revoked
    /\ UNCHANGED <<currentStep, capturedImage, croppedImage, enhancedImage,
                   finalImage, processingStep, cropBlobs, resizing, filtering,
                   templatingOld, bgJobs, delivered, nextUrl>>

\* handleTemplateApplied, as called by the toBlob callback of applyTemplate
\* of the mounted CVPhotoTemplates
handleTemplateApplied ==
    /\ templating > 0
    /\ CanAlloc
    /\ templating' = 0
    /\ templatingOld' = templatingOld + (templating - 1)
    /\ tplIsProcessing' = FALSE
    /\ finalImage' = nextUrl
    /\ nextUrl' = nextUrl + 1
    /\ currentStep' = "final"
    /\ lastOp' = "handleTemplateApplied"
    /\ UNCHANGED extVars
    /\ UNCHANGED <<cropVars, ingestVars, camVars>>
    /\ UNCHANGED revoked
    /\ UNCHANGED <<capturedImage, croppedImage, enhancedImage, processingStep,
                   cropBlobs, resizing, filtering, bgJobs, delivered>>

\* the same callback of a CVPhotoTemplates that was unmounted meanwhile
handleTemplateAppliedLate ==
    /\ templatingOld > 0
    /\ CanAlloc
    /\ tplIsProcessing' = IF currentStep = "templates" THEN FALSE ELSE tplIsProcessing
    /\ templating' = 0
    /\ templatingOld' = (templatingOld - 1) + templating
    /\ finalImage' = nextUrl
    /\ nextUrl' = nextUrl + 1
    /\ currentStep' = "final"
    /\ lastOp' = "handleTemplateAppliedLate"
    /\ UNCHANGED extVars
    /\ UNCHANGED <<cropVars, ingestVars, camVars>>
    /\ UNCHANGED revoked
    /\ UNCHANGED <<capturedImage, croppedImage, enhancedImage, processingStep,
                   cropBlobs, resizing, filtering, bgJobs, delivered>>

\* templateFailed as it would be if the partial canvas were published
templateFailedPublishes ==
    /\ templating > 0
    /\ CanAlloc
    /\ templating' = 0
    /\ templatingOld' = templatingOld + (templating - 1)
    /\ tplIsProcessing' = FALSE
    /\ finalImage' = nextUrl
    /\ nextUrl' = nextUrl + 1
    /\ currentStep' = "final"
    /\ lastOp' = "templateFailed"
    /\ UNCHANGED extVars
    /\ UNCHANGED <<cropVars, ingestVars, camVars>>
    /\ UNCHANGED revoked
    /\ UNCHANGED <<capturedImage, croppedImage, enhancedImage, processingStep,
                   cropBlobs, resizing, filtering, bgJobs, delivered>>

\* the image of applyTemplate fails to decode, or the canvas yields no blob
templateFailed ==
    /\ templating > 0
    /\ templating' = templating - 1
    /\ tplIsProcessing' = FALSE
    /\ lastOp' = "templateFailed"
    /\ UNCHANGED extVars
    /\ UNCHANGED <<cropVars, ingestVars, camVars>>
    /\ UNCHANGED revoked
    /\ UNCHANGED <<currentStep, capturedImage, croppedImage, enhancedImage,
                   finalImage, processingStep, cropBlobs, resizing, filtering,
                   templatingOld, bgJobs, delivered, nextUrl>>

\* the same failure in a CVPhotoTemplates that was unmounted meanwhile
templateFailedLate ==
    /\ templatingOld > 0
    /\ templatingOld' = templatingOld - 1
    /\ lastOp' = "templateFailedLate"
    /\ UNCHANGED extVars
    /\ UNCHANGED <<cropVars, ingestVars, camVars>>
    /\ UNCHANGED revoked
    /\ UNCHANGED <<currentStep, capturedImage, croppedImage, enhancedImage,
                   finalImage, processingStep, cropBlobs, resizing, filtering,
                   templating, tplIsProcessing, bgJobs, delivered, nextUrl>>

\* the Download & Use Photo button of step final
handleFinalComplete ==
    /\ currentStep = "final"
    /\ finalImage # Empty
    /\ delivered' = finalImage
    /\ lastOp' = "handleFinalComplete"
    /\ UNCHANGED extVars
    /\ UNCHANGED <<cropVars, ingestVars, camVars>>
    /\ UNCHANGED revoked
    /\ UNCHANGED <<currentStep, capturedImage, croppedImage, enhancedImage,
                   finalImage, processingStep, cropBlobs, resizing, filtering,
                   templating, templatingOld, tplIsProcessing, bgJobs, nextUrl>>

\* the step after s, as goNext computes it
nextOf(s) ==
    IF indexOf(s) < Len(steps) THEN steps[indexOf(s) + 1] ELSE s

\* prevOf as it would be if Previous returned to the first step
prevOfFirst(s) == steps[1]

\* the step before s, as goPrev computes it
prevOf(s) ==
    IF indexOf(s) > 1 THEN steps[indexOf(s) - 1] ELSE s

\* a click on Next: the button is disabled unless canGoNext()
goNext ==
    /\ footerShown
    /\ LET target == IF canGoNext THEN nextOf(currentStep) ELSE currentStep
       IN  /\ currentStep' = target
           /\ tplFollows(target)
    /\ lastOp' = "goNext"
    /\ UNCHANGED extVars
    /\ UNCHANGED <<ingestVars, camVars>>
    /\ UNCHANGED revoked
    /\ UNCHANGED <<capturedImage, croppedImage, enhancedImage, finalImage,
                   processingStep, cropBlobs, resizing, filtering,
                   bgJobs, delivered, nextUrl>>
    /\ cropToolFollows(currentStep')

\* a click on Previous: the button is disabled unless canGoPrev()
goPrev ==
    /\ footerShown
    /\ LET target == IF canGoPrev THEN prevOf(currentStep) ELSE currentStep
       IN  /\ currentStep' = target
           /\ tplFollows(target)
    /\ lastOp' = "goPrev"
    /\ UNCHANGED extVars
    /\ UNCHANGED <<ingestVars, camVars>>
    /\ UNCHANGED revoked
    /\ UNCHANGED <<capturedImage, croppedImage, enhancedImage, finalImage,
                   processingStep, cropBlobs, resizing, filtering,
                   bgJobs, delivered, nextUrl>>
    /\ cropToolFollows(currentStep')

\* the Create Another Photo button of step final
resetWorkflow ==
    /\ currentStep = "final"
    /\ finalImage # Empty
    /\ capturedImage' = Empty
    /\ croppedImage' = Empty
    /\ enhancedImage' = Empty
    /\ finalImage' = Empty
    /\ currentStep' = "capture"
    /\ lastOp' = "resetWorkflow"
    /\ UNCHANGED extVars
    /\ UNCHANGED <<cropVars, ingestVars, camVars>>
    /\ UNCHANGED revoked
    /\ UNCHANGED <<processingStep, cropBlobs, resizing, filtering, templating, templatingOld,
                   tplIsProcessing, bgJobs, delivered, nextUrl>>

\* BackgroundRemoval is mounted while enhancedImage is set and runs
\* removeBackground from its effect
removeBackground ==
    /\ enhancedImage # Empty
    /\ bgJobs < MaxPending
    /\ bgJobs' = bgJobs + 1
    /\ lastOp' = "removeBackground"
    /\ UNCHANGED extVars
    /\ UNCHANGED <<cropVars, ingestVars, camVars>>
    /\ UNCHANGED revoked
    /\ UNCHANGED <<currentStep, capturedImage, croppedImage, enhancedImage,
                   finalImage, processingStep, cropBlobs, resizing, filtering,
                   templating, templatingOld, tplIsProcessing, delivered, nextUrl>>

\* the toBlob callback of removeBackground: onProcessed -> setEnhancedImage
onProcessed ==
    /\ bgJobs > 0
    /\ CanAlloc
    /\ bgJobs' = bgJobs - 1
    /\ enhancedImage' = nextUrl
    /\ nextUrl' = nextUrl + 1
    /\ lastOp' = "onProcessed"
    /\ UNCHANGED extVars
    /\ UNCHANGED <<cropVars, ingestVars, camVars>>
    /\ UNCHANGED revoked
    /\ UNCHANGED <<currentStep, capturedImage, croppedImage, finalImage,
                   processingStep, cropBlobs, resizing, filtering, templating, templatingOld,
                   tplIsProcessing, delivered>>

\* removeBackground's image does not load, or its canvas yields no blob
bgNoBlob ==
    /\ bgJobs > 0
    /\ bgJobs' = bgJobs - 1
    /\ lastOp' = "bgNoBlob"
    /\ UNCHANGED extVars
    /\ UNCHANGED <<cropVars, ingestVars, camVars>>
    /\ UNCHANGED revoked
    /\ UNCHANGED <<currentStep, capturedImage, croppedImage, enhancedImage,
                   finalImage, processingStep, cropBlobs, resizing, filtering,
                   templating, templatingOld, tplIsProcessing, delivered, nextUrl>>


(***************************************************************************)
(* MobileCropTool                                                          *)
(* Lengths are CSS pixels.  The zoom is kept in tenths (10 = 1.0) and a    *)
(* pinch result is rounded down to a tenth; NaN is a value of its own.     *)
(***************************************************************************)
\* w-full inside max-w-lg: a phone-sized and a full-sized container
ContainerWidths == {300, 512}

\* the ratios of the Photo Type selector: passport, square, portrait
Ratios == {[num |-> 4, den |-> 6], [num |-> 1, den |-> 1], [num |-> 3, den |-> 4]}

\* pointer positions relative to the container that events may carry
Points == {<<0, 0>>, <<120, 90>>, <<240, 180>>}

NaN == [nan |-> TRUE, val |-> 0]

ZoomMin == 5

ZoomMax == 30

ZoomStep == 1

Max(a, b) == IF a >= b THEN a ELSE b

\* Math.max / Math.min over zoom values: a NaN argument yields NaN
MathMax(c, z) == IF z.nan THEN NaN ELSE Num(Max(c, z.val))

MathMin(c, z) == IF z.nan THEN NaN ELSE Num(Min(c, z.val))

\* zoom + d
ZoomAdd(z, d) == IF z.nan THEN NaN ELSE Num(z.val + d)

Abs(a) == IF a >= 0 THEN a ELSE -a

\* Math.sqrt(dx * dx + dy * dy), rounded down to a pixel
Hypot(dx, dy) ==
    CHOOSE r \in Max(Abs(dx), Abs(dy))..(Abs(dx) + Abs(dy)) :
        r * r <= dx * dx + dy * dy /\ dx * dx + dy * dy < (r + 1) * (r + 1)

\* getTouchDistance, on the list of touch points
getTouchDistance(ts) ==
    IF Len(ts) < 2 THEN 0
    ELSE Hypot(ts[2][1] - ts[1][1], ts[2][2] - ts[1][2])

\* Math.max(0.5, Math.min(3, prev.zoom * (currentDistance / lastDistance))):
\* x/0 is Infinity for x > 0 and NaN for x = 0
pinchZoom(z, currentDistance, lastDistance) ==
    LET scaled ==
          IF z.nan THEN NaN
          ELSE IF lastDistance = 0
               THEN IF currentDistance = 0 THEN NaN ELSE Num(ZoomMax + 1)
               ELSE Num((z.val * currentDistance) \div lastDistance)
    IN  MathMax(ZoomMin, MathMin(ZoomMax, scaled))

\* Math.max(0, Math.min(v, limit - size))
clampOrigin(v, limit, size) == Max(0, Min(v, limit - size))

\* the crop tool's variables while the orchestrator is checked
CropParked ==
    /\ containerWidth = 512
    /\ aspectRatio = [num |-> 4, den |-> 6]
    /\ cropData = DefaultCropData
    /\ isDragging = FALSE
    /\ isPinching = FALSE
    /\ lastTouchDistance = 0
    /\ dragStart = <<0, 0>>
    /\ touches = <<>>
    /\ events = 0

\* the mounted crop tool, after its initialisation effect has run
CropInit ==
    /\ containerWidth \in ContainerWidths
    /\ aspectRatio \in Ratios
    /\ cropData = initCropArea(DefaultCropData, containerWidth, aspectRatio)
    /\ isDragging = FALSE
    /\ isPinching = FALSE
    /\ lastTouchDistance = 0
    /\ dragStart = <<0, 0>>
    /\ touches = <<>>
    /\ events = 0

\* one more finger is put on the container, at p
handleTouchStart(p) ==
    /\ events < MaxEvents
    /\ Len(touches) < MaxTouches
    /\ touches' = Append(touches, p)
    /\ IF Len(touches') = 1
       THEN /\ isDragging' = TRUE
            /\ dragStart' = <<touches'[1][1] - cropData.x, touches'[1][2] - cropData.y>>
            /\ UNCHANGED <<isPinching, lastTouchDistance>>
       ELSE IF Len(touches') = 2
       THEN /\ isPinching' = TRUE
            /\ isDragging' = FALSE
            /\ lastTouchDistance' = getTouchDistance(touches')
            /\ UNCHANGED dragStart
       ELSE UNCHANGED <<isDragging, isPinching, lastTouchDistance, dragStart>>
    /\ lastOp' = "handleTouchStart"
    /\ UNCHANGED extVars
    /\ UNCHANGED <<wfState, ingestVars, camVars>>
    /\ events' = events + 1
    /\ UNCHANGED <<containerWidth, aspectRatio, cropData>>

\* a touchmove event: the finger i on the container is now at p
handleTouchMove(i, p) ==
    /\ events < MaxEvents
    /\ i \in 1..Len(touches)
    /\ touches' = [touches EXCEPT ![i] = p]
    /\ LET moved == touches' IN
       IF Len(moved) = 1 /\ isDragging /\ ~isPinching
       THEN /\ cropData' =
                 [cropData EXCEPT
                    !.x = clampOrigin(moved[1][1] - dragStart[1], containerWidth, cropData.width),
                    !.y = clampOrigin(moved[1][2] - dragStart[2], ContainerHeight, cropData.height)]
            /\ UNCHANGED lastTouchDistance
       ELSE IF Len(moved) = 2 /\ isPinching
       THEN /\ cropData' =
                 [cropData EXCEPT
                    !.zoom = pinchZoom(cropData.zoom, getTouchDistance(moved), lastTouchDistance)]
            /\ lastTouchDistance' = getTouchDistance(moved)
       ELSE UNCHANGED <<cropData, lastTouchDistance>>
    /\ lastOp' = "handleTouchMove"
    /\ UNCHANGED extVars
    /\ UNCHANGED <<wfState, ingestVars, camVars>>
    /\ events' = events + 1
    /\ UNCHANGED <<containerWidth, aspectRatio, isDragging, isPinching, dragStart>>

\* the subsequence of ts at the positions keep
SelectTouches(ts, keep) ==
    LET F[i \in 0..Len(ts)] ==
          IF i = 0 THEN <<>>
          ELSE IF i \in keep THEN Append(F[i - 1], ts[i]) ELSE F[i - 1]
    IN  F[Len(ts)]

\* the fingers at the positions lifted leave the container
handleTouchEnd(lifted) ==
    /\ events < MaxEvents
    /\ lifted # {}
    /\ lifted \subseteq 1..Len(touches)
    /\ touches' = SelectTouches(touches, (1..Len(touches)) \ lifted)
    /\ IF Len(touches') = 0
       THEN /\ isDragging' = FALSE
            /\ isPinching' = FALSE
            /\ UNCHANGED dragStart
       ELSE IF Len(touches') = 1 /\ isPinching
       THEN /\ isPinching' = FALSE
            /\ isDragging' = TRUE
            /\ dragStart' = <<touches'[1][1] - cropData.x, touches'[1][2] - cropData.y>>
       ELSE UNCHANGED <<isDragging, isPinching, dragStart>>
    /\ lastOp' = "handleTouchEnd"
    /\ UNCHANGED extVars
    /\ UNCHANGED <<wfState, ingestVars, camVars>>
    /\ events' = events + 1
    /\ UNCHANGED <<containerWidth, aspectRatio, cropData, lastTouchDistance>>

handleMouseDown(p) ==
    /\ events < MaxEvents
    /\ isDragging' = TRUE
    /\ dragStart' = <<p[1] - cropData.x, p[2] - cropData.y>>
    /\ lastOp' = "handleMouseDown"
    /\ UNCHANGED extVars
    /\ UNCHANGED <<wfState, ingestVars, camVars>>
    /\ events' = events + 1
    /\ UNCHANGED <<containerWidth, aspectRatio, cropData, isPinching,
                   lastTouchDistance, touches>>

handleMouseMove(p) ==
    /\ events < MaxEvents
    /\ cropData' =
          IF ~isDragging THEN cropData
          ELSE [cropData EXCEPT
                  !.x = clampOrigin(p[1] - dragStart[1], containerWidth, cropData.width),
                  !.y = clampOrigin(p[2] - dragStart[2], ContainerHeight, cropData.height)]
    /\ lastOp' = "handleMouseMove"
    /\ UNCHANGED extVars
    /\ UNCHANGED <<wfState, ingestVars, camVars>>
    /\ events' = events + 1
    /\ UNCHANGED <<containerWidth, aspectRatio, isDragging, isPinching,
                   lastTouchDistance, dragStart, touches>>

\* onMouseUp and onMouseLeave
handleMouseUp ==
    /\ events < MaxEvents
    /\ isDragging' = FALSE
    /\ lastOp' = "handleMouseUp"
    /\ UNCHANGED extVars
    /\ UNCHANGED <<wfState, ingestVars, camVars>>
    /\ events' = events + 1
    /\ UNCHANGED <<containerWidth, aspectRatio, cropData, isPinching,
                   lastTouchDistance, dragStart, touches>>

zoomIn ==
    /\ events < MaxEvents
    /\ cropData' = [cropData EXCEPT !.zoom = MathMin(ZoomMax, ZoomAdd(cropData.zoom, ZoomStep))]
    /\ lastOp' = "zoomIn"
    /\ UNCHANGED extVars
    /\ UNCHANGED <<wfState, ingestVars, camVars>>
    /\ events' = events + 1
    /\ UNCHANGED <<containerWidth, aspectRatio, isDragging, isPinching,
                   lastTouchDistance, dragStart, touches>>

zoomOut ==
    /\ events < MaxEvents
    /\ cropData' = [cropData EXCEPT !.zoom = MathMax(ZoomMin, ZoomAdd(cropData.zoom, -ZoomStep))]
    /\ lastOp' = "zoomOut"
    /\ UNCHANGED extVars
    /\ UNCHANGED <<wfState, ingestVars, camVars>>
    /\ events' = events + 1
    /\ UNCHANGED <<containerWidth, aspectRatio, isDragging, isPinching,
                   lastTouchDistance, dragStart, touches>>

\* the updater of rotateImage as it would be without the modulo
rotateImageNoWrap(prev) == [prev EXCEPT !.rotation = prev.rotation + 90]

\* the updater that rotateImage passes to setCropData
rotateImageUpdater(prev) == [prev EXCEPT !.rotation = (prev.rotation + 90) % 360]

rotateImage ==
    /\ events < MaxEvents
    /\ cropData' = rotateImageUpdater(cropData)
    /\ lastOp' = "rotateImage"
    /\ UNCHANGED extVars
    /\ UNCHANGED <<wfState, ingestVars, camVars>>
    /\ events' = events + 1
    /\ UNCHANGED <<containerWidth, aspectRatio, isDragging, isPinching,
                   lastTouchDistance, dragStart, touches>>

resetCrop ==
    /\ events < MaxEvents
    /\ cropData' = [x |-> 0, y |-> 0, width |-> 300,
                    height |-> divRatio(300, aspectRatio),
                    zoom |-> Num(10), rotation |-> 0]
    /\ lastOp' = "resetCrop"
    /\ UNCHANGED extVars
    /\ UNCHANGED <<wfState, ingestVars, camVars>>
    /\ events' = events + 1
    /\ UNCHANGED <<containerWidth, aspectRatio, isDragging, isPinching,
                   lastTouchDistance, dragStart, touches>>

\* a Photo Type button of the orchestrator: the aspectRatio prop changes and
\* the initialisation effect runs again
setSelectedAspectRatio(r) ==
    /\ events < MaxEvents
    /\ r # aspectRatio
    /\ aspectRatio' = r
    /\ cropData' = initCropArea(cropData, containerWidth, r)
    /\ lastOp' = "setSelectedAspectRatio"
    /\ UNCHANGED extVars
    /\ UNCHANGED <<wfState, ingestVars, camVars>>
    /\ events' = events + 1
    /\ UNCHANGED <<containerWidth, isDragging, isPinching, lastTouchDistance,
                   dragStart, touches>>

CropNext ==
    \/ \E p \in Points : handleTouchStart(p)
    \/ \E i \in 1..MaxTouches, p \in Points : handleTouchMove(i, p)
    \/ \E lifted \in SUBSET (1..MaxTouches) : handleTouchEnd(lifted)
    \/ \E p \in Points : handleMouseDown(p)
    \/ \E p \in Points : handleMouseMove(p)
    \/ handleMouseUp
    \/ zoomIn
    \/ zoomOut
    \/ rotateImage
    \/ resetCrop
    \/ \E r \in Ratios : setSelectedAspectRatio(r)


(***************************************************************************)
(* EnhancedPhotoCapture, camera.  A MediaStream is a number; the stream of *)
(* the video-only constraints has one track.                               *)
(***************************************************************************)
\* the null of useRef<MediaStream | null>(null)
NoStream == 0

Streams == 1..MaxStreams

\* what stopCamera reads and writes
camState ==
    [streamRef |-> streamRef, isStreaming |-> isStreaming, trackStops |-> trackStops]

\* stopCamera as it would be if it left streamRef.current in place
stopCameraKeepsRef(c) ==
    IF c.streamRef # NoStream
    THEN [c EXCEPT !.trackStops[c.streamRef] = @ + 1,
                   !.isStreaming = FALSE]
    ELSE c

\* stopCamera, as a function of the camera state
stopCamera(c) ==
    IF c.streamRef # NoStream
    THEN [c EXCEPT !.trackStops[c.streamRef] = @ + 1,
                   !.streamRef = NoStream,
                   !.isStreaming = FALSE]
    ELSE c

\* a call of stopCamera()
callStopCamera ==
    /\ streamRef' = stopCamera(camState).streamRef
    /\ isStreaming' = stopCamera(camState).isStreaming
    /\ trackStops' = stopCamera(camState).trackStops

\* the <video> element is rendered in step capture while isStreaming, and
\* videoRef.current is that element or null
videoRefCurrent == epcMounted /\ epcCurrentStep = "capture" /\ isStreaming

\* startCamera as it would be without its try / catch
startCameraNoCatch == "uncaught"

\* the catch block of startCamera: console.error and a toast, no rethrow
startCameraCatch == "caught"

CamInit ==
    /\ epcMounted = TRUE
    /\ isStreaming = FALSE
    /\ streamRef = NoStream
    /\ gumPending = 0
    /\ trackStops = [s \in Streams |-> 0]
    /\ nextStream = 1
    /\ cameraError = "none"

(***************************************************************************)
(* File ingestion: EnhancedPhotoCapture.handleFileUpload and               *)
(* SimplePhotoUploader.handleFileSelect.  A file is its MIME type and its  *)
(* size in bytes; the data URL a FileReader produces for it is the file.   *)
(***************************************************************************)
\* the null of useState<string | null>(null)
Null == [type |-> "null", size |-> 0]

\* File.type values that the file inputs may deliver (lower case, File API)
MimeTypes == {"image/jpeg", "image/png", "image/heic", "image/gif"}

FileSizes == {1024, 10 * 1024 * 1024, 10 * 1024 * 1024 + 1, 11 * 1024 * 1024}

Files == [type : MimeTypes, size : FileSizes]

\* String.prototype.toLowerCase on MIME types
toLowerCase(t) ==
    CASE t = "IMAGE/JPEG" -> "image/jpeg"
      [] t = "IMAGE/JPG" -> "image/jpg"
      [] t = "IMAGE/PNG" -> "image/png"
      [] t = "IMAGE/WEBP" -> "image/webp"
      [] t = "IMAGE/HEIC" -> "image/heic"
      [] t = "IMAGE/GIF" -> "image/gif"
      [] t = "APPLICATION/PDF" -> "application/pdf"
      [] OTHER -> t

\* supportedTypes as it would be if GIF had been added to the list
epcSupportedTypesGif ==
    {"image/jpeg", "image/jpg", "image/png", "image/webp", "image/heic", "image/gif"}

\* supportedTypes of EnhancedPhotoCapture.handleFileUpload
epcSupportedTypes ==
    {"image/jpeg", "image/jpg", "image/png", "image/webp", "image/heic"}

\* supportedTypes of SimplePhotoUploader.handleFileSelect
spuSupportedTypes == {"image/jpeg", "image/jpg", "image/png", "image/webp"}

\* the size test as it would be with >= in place of >
epcTooLargeInclusive(size) == size >= 10 * 1024 * 1024

\* file.size > 10 * 1024 * 1024 in handleFileUpload
epcTooLarge(size) == size > 10 * 1024 * 1024

\* file.size > 10 * 1024 * 1024 in handleFileSelect
spuTooLarge(size) == size > 10 * 1024 * 1024

\* the ingestion components while another component is checked
IngestInit ==
    /\ epcActiveMode = "capture"
    /\ epcSelectedImage = Null
    /\ epcCurrentStep = "capture"
    /\ epcReaders = {}
    /\ spuSelectedImage = Null
    /\ spuReaders = {}
    /\ lastFile = Null

\* the change event of the file input of EnhancedPhotoCapture (step capture)
handleFileUpload(file) ==
    /\ epcMounted
    /\ epcCurrentStep = "capture"
    /\ lastFile' = file
    /\ epcReaders' =
          IF file.type \notin epcSupportedTypes THEN epcReaders
          ELSE IF epcTooLarge(file.size) THEN epcReaders
          ELSE epcReaders \cup {file}
    /\ Cardinality(epcReaders') <= MaxPending
    /\ lastOp' = "handleFileUpload"
    /\ UNCHANGED extVars
    /\ UNCHANGED <<epcActiveMode, epcSelectedImage, epcCurrentStep,
                   spuSelectedImage, spuReaders>>
    /\ UNCHANGED <<wfState, cropVars, camVars>>

\* reader.onload of handleFileUpload; selectedImage changes, so the cleanup
\* of the effect runs and calls stopCamera
epcReaderOnload(file) ==
    /\ epcMounted
    /\ file \in epcReaders
    /\ epcReaders' = epcReaders \ {file}
    /\ epcSelectedImage' = file
    /\ epcCurrentStep' = "crop"
    /\ epcActiveMode' = "edit"
    /\ callStopCamera
    /\ lastOp' = "epcReaderOnload"
    /\ UNCHANGED extVars
    /\ UNCHANGED <<spuSelectedImage, spuReaders, lastFile>>
    /\ UNCHANGED <<epcMounted, gumPending, nextStream, cameraError>>
    /\ UNCHANGED <<wfState, cropVars>>

\* the FileReader of handleFileUpload fails: no handler is registered
epcReaderError(file) ==
    /\ file \in epcReaders
    /\ epcReaders' = epcReaders \ {file}
    /\ lastOp' = "epcReaderError"
    /\ UNCHANGED extVars
    /\ UNCHANGED <<epcActiveMode, epcSelectedImage, epcCurrentStep,
                   spuSelectedImage, spuReaders, lastFile>>
    /\ UNCHANGED <<wfState, cropVars, camVars>>

\* the Reset button of EnhancedPhotoCapture's crop step; selectedImage
\* changes, so the cleanup of the effect runs and calls stopCamera
resetAll ==
    /\ epcMounted
    /\ epcCurrentStep = "crop"
    /\ epcSelectedImage # Null
    /\ epcSelectedImage' = Null
    /\ epcCurrentStep' = "capture"
    /\ epcActiveMode' = "capture"
    /\ callStopCamera
    /\ lastOp' = "resetAll"
    /\ UNCHANGED extVars
    /\ UNCHANGED <<epcReaders, spuSelectedImage, spuReaders, lastFile>>
    /\ UNCHANGED <<epcMounted, gumPending, nextStream, cameraError>>
    /\ UNCHANGED <<wfState, cropVars>>

\* the change event of the file input of SimplePhotoUploader
handleFileSelect(file) ==
    /\ lastFile' = file
    /\ spuReaders' =
          IF toLowerCase(file.type) \notin spuSupportedTypes THEN spuReaders
          ELSE IF spuTooLarge(file.size) THEN spuReaders
          ELSE spuReaders \cup {file}
    /\ Cardinality(spuReaders') <= MaxPending
    /\ lastOp' = "handleFileSelect"
    /\ UNCHANGED extVars
    /\ UNCHANGED <<epcActiveMode, epcSelectedImage, epcCurrentStep, epcReaders,
                   spuSelectedImage>>
    /\ UNCHANGED <<wfState, cropVars, camVars>>

\* reader.onload of handleFileSelect
spuReaderOnload(file) ==
    /\ file \in spuReaders
    /\ spuReaders' = spuReaders \ {file}
    /\ spuSelectedImage' = file
    /\ lastOp' = "spuReaderOnload"
    /\ UNCHANGED extVars
    /\ UNCHANGED <<epcActiveMode, epcSelectedImage, epcCurrentStep, epcReaders,
                   lastFile>>
    /\ UNCHANGED <<wfState, cropVars, camVars>>

\* the FileReader of handleFileSelect fails: no handler is registered
spuReaderError(file) ==
    /\ file \in spuReaders
    /\ spuReaders' = spuReaders \ {file}
    /\ lastOp' = "spuReaderError"
    /\ UNCHANGED extVars
    /\ UNCHANGED <<epcActiveMode, epcSelectedImage, epcCurrentStep, epcReaders,
                   spuSelectedImage, lastFile>>
    /\ UNCHANGED <<wfState, cropVars, camVars>>

\* the Reset button of SimplePhotoUploader
spuReset ==
    /\ spuSelectedImage # Null
    /\ spuSelectedImage' = Null
    /\ lastOp' = "spuReset"
    /\ UNCHANGED extVars
    /\ UNCHANGED <<epcActiveMode, epcSelectedImage, epcCurrentStep, epcReaders,
                   spuReaders, lastFile>>
    /\ UNCHANGED <<wfState, cropVars, camVars>>

IngestNext ==
    \/ \E file \in Files : handleFileUpload(file)
    \/ \E file \in Files : epcReaderOnload(file)
    \/ \E file \in Files : epcReaderError(file)
    \/ resetAll
    \/ \E file \in Files : handleFileSelect(file)
    \/ \E file \in Files : spuReaderOnload(file)
    \/ \E file \in Files : spuReaderError(file)
    \/ spuReset

(***************************************************************************)
(* CVPhotoTemplates.applyTemplate: what it draws on its canvas.  Lengths   *)
(* are whole pixels, rounded down.  Assigning canvas.width resets the      *)
(* drawing state, so every call starts with filter 'none' and no shadow.   *)
(***************************************************************************)
NoImg == [width |-> 0, height |-> 0]

\* the images the component is given: the rasters of the crop stage
TplImages == {[width |-> 400, height |-> 600], [width |-> 400, height |-> 400],
              [width |-> 400, height |-> 533]}

\* photoTemplates: background kind, the effects that become canvas filters
\* (contrast, then warmth as sepia), frame style and ratio of each template
photoTemplates ==
    { [id |-> "professional-white", background |-> "solid",
       filters |-> <<"contrast">>, frame |-> "none", ratio |-> [num |-> 4, den |-> 6]],
      [id |-> "professional-gray", background |-> "solid",
       filters |-> <<"contrast">>, frame |-> "thin", ratio |-> [num |-> 4, den |-> 6]],
      [id |-> "corporate-gradient", background |-> "gradient",
       filters |-> <<"contrast">>, frame |-> "shadow", ratio |-> [num |-> 3, den |-> 4]],
      [id |-> "government-blue", background |-> "solid",
       filters |-> <<"contrast">>, frame |-> "thick", ratio |-> [num |-> 4, den |-> 6]],
      [id |-> "passport-standard", background |-> "solid",
       filters |-> <<"contrast">>, frame |-> "none", ratio |-> [num |-> 4, den |-> 6]],
      [id |-> "linkedin-style", background |-> "gradient",
       filters |-> <<"contrast", "sepia">>, frame |-> "shadow", ratio |-> [num |-> 4, den |-> 5]],
      [id |-> "startup-modern", background |-> "gradient",
       filters |-> <<"contrast", "sepia">>, frame |-> "thin", ratio |-> [num |-> 1, den |-> 1]],
      [id |-> "creative-warm", background |-> "gradient",
       filters |-> <<"contrast", "sepia">>, frame |-> "shadow", ratio |-> [num |-> 3, den |-> 4]],
      [id |-> "artistic-minimal", background |-> "gradient",
       filters |-> <<"contrast">>, frame |-> "none", ratio |-> [num |-> 3, den |-> 4]] }

\* canvasWidth, canvasHeight from template.ratio, maxSize = 800
canvasSize(t) ==
    IF t.ratio.num >= t.ratio.den
    THEN [width |-> 800, height |-> (800 * t.ratio.den) \div t.ratio.num]
    ELSE [width |-> (800 * t.ratio.num) \div t.ratio.den, height |-> 800]

\* the image, centered with a padding of 40
imagePosition(c, img) ==
    LET availableWidth == c.width - 40 * 2
        availableHeight == c.height - 40 * 2
        wide == img.width * availableHeight > img.height * availableWidth
        imgWidth == IF wide THEN availableWidth
                    ELSE (availableHeight * img.width) \div img.height
        imgHeight == IF wide THEN (availableWidth * img.height) \div img.width
                     ELSE availableHeight
    IN  [x |-> (c.width - imgWidth) \div 2, y |-> (c.height - imgHeight) \div 2,
         width |-> imgWidth, height |-> imgHeight]

\* one draw call: the rectangle, ctx.filter and ctx.shadowColor at the call
drawOp(op, x, y, w, h, filter, lineWidth, shadow) ==
    [op |-> op, rect |-> [x |-> x, y |-> y, width |-> w, height |-> h],
     filter |-> filter, lineWidth |-> lineWidth, shadow |-> shadow]

\* the frame of the template: thin and thick stroke a border, shadow fills a
\* white rectangle with a drop shadow
frameOps(t, c) ==
    CASE t.frame = "thin" ->
           <<drawOp("strokeRect", 1, 1, c.width - 2, c.height - 2, <<>>, 2, FALSE)>>
      [] t.frame = "thick" ->
           <<drawOp("strokeRect", 4, 4, c.width - 8, c.height - 8, <<>>, 8, FALSE)>>
      [] t.frame = "shadow" ->
           <<drawOp("fillRect", 10, 10, c.width - 20, c.height - 20, <<>>, 0, TRUE)>>
      [] OTHER -> <<>>

\* the draw calls of applyTemplate after the image has loaded
drawTemplate(t, img) ==
    LET c == canvasSize(t)
        i == imagePosition(c, img)
    IN  <<drawOp("fillRect", 0, 0, c.width, c.height, <<>>, 0, FALSE),
          drawOp("drawImage", i.x, i.y, i.width, i.height, t.filters, 0, FALSE)>>
        \o frameOps(t, c)

TplInit ==
    /\ selectedTemplate = ""
    /\ tplImg = NoImg
    /\ tplCanvas = <<>>

\* a template button (disabled while isProcessing): applyTemplate up to the
\* await of the image
applyTemplateLoad(t, img) ==
    /\ tplImg = NoImg
    /\ selectedTemplate' = t.id
    /\ tplImg' = img
    /\ lastOp' = "applyTemplateLoad"
    /\ UNCHANGED tplCanvas
    /\ UNCHANGED <<wfState, cropVars, ingestVars, camVars, rasterVars, bgVars, rlVars, homeVars>>

\* img.onload: applyTemplate sizes the canvas and draws
applyTemplateDraw ==
    /\ tplImg # NoImg
    /\ tplCanvas' = drawTemplate(CHOOSE t \in photoTemplates : t.id = selectedTemplate,
                                 tplImg)
    /\ tplImg' = NoImg
    /\ lastOp' = "applyTemplateDraw"
    /\ UNCHANGED selectedTemplate
    /\ UNCHANGED <<wfState, cropVars, ingestVars, camVars, rasterVars, bgVars, rlVars, homeVars>>

\* img.onerror: the catch block, nothing is drawn
applyTemplateImgError ==
    /\ tplImg # NoImg
    /\ tplImg' = NoImg
    /\ lastOp' = "applyTemplateImgError"
    /\ UNCHANGED <<selectedTemplate, tplCanvas>>
    /\ UNCHANGED <<wfState, cropVars, ingestVars, camVars, rasterVars, bgVars, rlVars, homeVars>>

TemplateNext ==
    \/ \E t \in photoTemplates, img \in TplImages : applyTemplateLoad(t, img)
    \/ applyTemplateDraw
    \/ applyTemplateImgError

(***************************************************************************)
(* BackgroundRemoval as MasterPhotoCapture mounts it: imageUrl is the      *)
(* enhanced image and onProcessed is an inline arrow function, new on      *)
(* every render of the orchestrator.  removeBackground is a useCallback on *)
(* [imageUrl, onProcessed, backgroundColor] and the effect depends on it,  *)
(* so the effect runs after the mount and after every render of the        *)
(* orchestrator.  An object URL is new each time; only whether the URL     *)
(* changes matters here, so the URLs are numbered round 1..MaxUrl.         *)
(***************************************************************************)
freshUrl(u) == (u % MaxUrl) + 1

BgInit ==
    /\ bgImageUrl = Empty
    /\ bgEffectDue = FALSE
    /\ bgLoading = {}

\* handleEnhanceComplete, applyFilters resolved: setEnhancedImage(filteredUrl)
\* renders the orchestrator, which mounts or re-renders BackgroundRemoval
setEnhancedImage ==
    /\ bgImageUrl' = freshUrl(bgImageUrl)
    /\ bgEffectDue' = TRUE
    /\ lastOp' = "setEnhancedImage"
    /\ UNCHANGED bgLoading
    /\ UNCHANGED <<wfState, cropVars, ingestVars, camVars, rasterVars, tplVars, rlVars, homeVars>>

\* any other state change of the orchestrator while BackgroundRemoval is
\* mounted (setCurrentStep, setFinalImage, setProcessingStep)
orchestratorRender ==
    /\ bgImageUrl # Empty
    /\ bgEffectDue' = TRUE
    /\ lastOp' = "orchestratorRender"
    /\ UNCHANGED <<bgImageUrl, bgLoading>>
    /\ UNCHANGED <<wfState, cropVars, ingestVars, camVars, rasterVars, tplVars, rlVars, homeVars>>

\* resetWorkflow: setEnhancedImage('') unmounts BackgroundRemoval; the runs
\* that are still working are not cancelled
bgUnmount ==
    /\ bgImageUrl # Empty
    /\ bgImageUrl' = Empty
    /\ bgEffectDue' = FALSE
    /\ lastOp' = "bgUnmount"
    /\ UNCHANGED bgLoading
    /\ UNCHANGED <<wfState, cropVars, ingestVars, camVars, rasterVars, tplVars, rlVars, homeVars>>

\* the effect: removeBackground() starts loading imageUrl
removeBackgroundEffect ==
    /\ bgEffectDue
    /\ Cardinality(bgLoading \cup {bgImageUrl}) <= MaxPending
    /\ bgLoading' = bgLoading \cup {bgImageUrl}
    /\ bgEffectDue' = FALSE
    /\ lastOp' = "removeBackgroundEffect"
    /\ UNCHANGED bgImageUrl
    /\ UNCHANGED <<wfState, cropVars, ingestVars, camVars, rasterVars, tplVars, rlVars, homeVars>>

\* img.onload and the toBlob callback with a blob: onProcessed(processedUrl),
\* which is setEnhancedImage(url) and renders the orchestrator
toBlobProcessed(u) ==
    /\ u \in bgLoading
    /\ bgLoading' = bgLoading \ {u}
    /\ bgImageUrl' = freshUrl(bgImageUrl)
    /\ bgEffectDue' = TRUE
    /\ lastOp' = "toBlobProcessed"
    /\ UNCHANGED <<wfState, cropVars, ingestVars, camVars, rasterVars, tplVars, rlVars, homeVars>>

\* the image does not load, or toBlob yields null: nothing is called
toBlobNull(u) ==
    /\ u \in bgLoading
    /\ bgLoading' = bgLoading \ {u}
    /\ lastOp' = "toBlobNull"
    /\ UNCHANGED <<bgImageUrl, bgEffectDue>>
    /\ UNCHANGED <<wfState, cropVars, ingestVars, camVars, rasterVars, tplVars, rlVars, homeVars>>

BgNext ==
    \/ setEnhancedImage
    \/ orchestratorRender
    \/ bgUnmount
    \/ removeBackgroundEffect
    \/ \E u \in bgLoading : toBlobProcessed(u)
    \/ \E u \in bgLoading : toBlobNull(u)

\* React runs a due effect after the commit; the browser calls back for every
\* image load and every toBlob
BgFairness ==
    /\ WF_vars(removeBackgroundEffect)
    /\ WF_vars(\E u \in bgLoading : toBlobProcessed(u) \/ toBlobNull(u))

(***************************************************************************)
(* api/ai/chat/route.ts: the in-memory rate limiter.  Time is counted in   *)
(* ticks of 30 s, so that a request can fall inside a window, on its reset *)
(* time and after it.                                                      *)
(***************************************************************************)
\* RATE_LIMIT.maxRequestsPerMinute
maxRequestsPerMinute == 10

\* the 60000 ms of resetTime: now + 60000, in ticks
WindowTicks == 2

\* the values of the x-forwarded-for header
IPs == {"10.0.0.1", "10.0.0.2"}

\* rateLimitMap.get(ip) of an ip without an entry
NoLimit == [count |-> 0, resetTime |-> -1]

\* checkRateLimit as it would be with count > maxRequestsPerMinute
checkRateLimitOffByOne(m, ip, t) ==
    IF m[ip] = NoLimit \/ t > m[ip].resetTime
    THEN [map |-> [m EXCEPT ![ip] = [count |-> 1, resetTime |-> t + WindowTicks]],
          ok |-> TRUE]
    ELSE IF m[ip].count > maxRequestsPerMinute
         THEN [map |-> m, ok |-> FALSE]
         ELSE [map |-> [m EXCEPT ![ip].count = @ + 1], ok |-> TRUE]

\* checkRateLimit(ip) at time t: the map afterwards and the return value
checkRateLimitAt(m, ip, t) ==
    IF m[ip] = NoLimit \/ t > m[ip].resetTime
    THEN [map |-> [m EXCEPT ![ip] = [count |-> 1, resetTime |-> t + WindowTicks]],
          ok |-> TRUE]
    ELSE IF m[ip].count >= maxRequestsPerMinute
         THEN [map |-> m, ok |-> FALSE]
         ELSE [map |-> [m EXCEPT ![ip].count = @ + 1], ok |-> TRUE]

RateLimitInit ==
    /\ clock = 0
    /\ rateLimitMap = [ip \in IPs |-> NoLimit]
    /\ lastCheck = [ip |-> "", ok |-> TRUE]
    /\ windowOpened = [ip \in IPs |-> -1]
    /\ admittedInWindow = [ip \in IPs |-> 0]

\* time passes
clockTick ==
    /\ clock < MaxClock
    /\ clock' = clock + 1
    /\ lastOp' = "clockTick"
    /\ UNCHANGED <<rateLimitMap, lastCheck, windowOpened, admittedInWindow>>
    /\ UNCHANGED <<wfState, cropVars, ingestVars, camVars, rasterVars, tplVars, bgVars, homeVars>>

\* POST: checkRateLimit(ip).  The history records the admitted requests by
\* their time alone: a request opens a window when none was opened or when it
\* comes later than 60 s after the opening of the last one.
checkRateLimit(ip) ==
    LET r == checkRateLimitAt(rateLimitMap, ip, clock)
        opens == windowOpened[ip] < 0 \/ clock > windowOpened[ip] + WindowTicks
    IN  /\ rateLimitMap' = r.map
        /\ lastCheck' = [ip |-> ip, ok |-> r.ok]
        /\ windowOpened' = IF r.ok /\ opens
                           THEN [windowOpened EXCEPT ![ip] = clock]
                           ELSE windowOpened
        /\ admittedInWindow' =
               IF ~r.ok THEN admittedInWindow
               ELSE IF opens THEN [admittedInWindow EXCEPT ![ip] = 1]
               ELSE [admittedInWindow EXCEPT ![ip] = @ + 1]
        /\ lastOp' = "checkRateLimit"
        /\ UNCHANGED clock
        /\ UNCHANGED <<wfState, cropVars, ingestVars, camVars, rasterVars, tplVars, bgVars, homeVars>>

RateLimitNext ==
    \/ clockTick
    \/ \E ip \in IPs : checkRateLimit(ip)

(***************************************************************************)
(* Home and Dashboard: sign in, sign out and the data kept in the          *)
(* localStorage of the browser.  A CV is modelled by the set of the people *)
(* whose data it holds: handleCVDataUpdate merges the new data into the CV *)
(* that is there.                                                          *)
(***************************************************************************)
NoSession == ""

Users == {"a@cv.test", "b@cv.test", "c@cv.test"}

\* who enters data without a NextAuth session (demo mode)
Guest == "guest"

NoCV == {}

HomeInit ==
    /\ session = NoSession
    /\ isLoggedIn = FALSE
    /\ currentCV = NoCV
    /\ userBackup = [u \in Users |-> NoCV]

\* a NextAuth session appears: the effect of Home restores the backup of the
\* user, currentCV only when localStorage has none
signIn(u) ==
    /\ session = NoSession
    /\ session' = u
    /\ isLoggedIn' = TRUE
    /\ currentCV' = IF userBackup[u] # NoCV /\ currentCV = NoCV
                    THEN userBackup[u]
                    ELSE currentCV
    /\ lastOp' = "signIn"
    /\ UNCHANGED userBackup
    /\ UNCHANGED <<wfState, cropVars, ingestVars, camVars, rasterVars, tplVars, bgVars, rlVars>>

\* MockAuthPage onLogin without a session: no email, nothing is restored
handleLogin ==
    /\ session = NoSession
    /\ ~isLoggedIn
    /\ isLoggedIn' = TRUE
    /\ lastOp' = "handleLogin"
    /\ UNCHANGED <<session, currentCV, userBackup>>
    /\ UNCHANGED <<wfState, cropVars, ingestVars, camVars, rasterVars, tplVars, bgVars, rlVars>>

\* Dashboard.handleCVDataUpdate: merges the data entered into the CV loaded
\* from localStorage and stores the result as currentCV
handleCVDataUpdate ==
    /\ isLoggedIn
    /\ currentCV' = currentCV \cup {IF session # NoSession THEN session ELSE Guest}
    /\ lastOp' = "handleCVDataUpdate"
    /\ UNCHANGED <<session, isLoggedIn, userBackup>>
    /\ UNCHANGED <<wfState, cropVars, ingestVars, camVars, rasterVars, tplVars, bgVars, rlVars>>

\* CVPreview onClear: localStorage.removeItem('currentCV')
onClear ==
    /\ isLoggedIn
    /\ currentCV # NoCV
    /\ currentCV' = NoCV
    /\ lastOp' = "onClear"
    /\ UNCHANGED <<session, isLoggedIn, userBackup>>
    /\ UNCHANGED <<wfState, cropVars, ingestVars, camVars, rasterVars, tplVars, bgVars, rlVars>>

\* Dashboard.handleLogout: Home.handleLogout writes the backup of the user
\* (hasData is always true, backupTimestamp is never empty) and removes
\* 'isLoggedIn' only, then signOut ends the session
handleLogout ==
    /\ isLoggedIn
    /\ userBackup' = IF session # NoSession
                     THEN [userBackup EXCEPT ![session] = currentCV]
                     ELSE userBackup
    /\ isLoggedIn' = FALSE
    /\ session' = NoSession
    /\ lastOp' = "handleLogout"
    /\ UNCHANGED currentCV
    /\ UNCHANGED <<wfState, cropVars, ingestVars, camVars, rasterVars, tplVars, bgVars, rlVars>>

HomeNext ==
    \/ \E u \in Users : signIn(u)
    \/ handleLogin
    \/ handleCVDataUpdate
    \/ onClear
    \/ handleLogout

(***************************************************************************)
(* The raster of the crop stage: the canvas that MobileCropTool.applyCrop  *)
(* draws and the canvas that ImageProcessor.resizeImage draws from it.  A  *)
(* canvas dimension is an integer: the assigned number is truncated.       *)
(***************************************************************************)
NoRaster == [width |-> 0, height |-> 0, optimised |-> FALSE]

\* the canvas of applyCrop as it would be with a fixed passport-sized output
applyCropCanvasFixed(r) == [width |-> 400, height |-> 600, optimised |-> FALSE]

\* outputWidth = 400, outputHeight = outputWidth / aspectRatio; the size of the
\* canvas depends on nothing else: the region, the zoom and the rotation only
\* decide what is drawn into it
applyCropCanvas(r) == [width |-> 400, height |-> divRatio(400, r), optimised |-> FALSE]

\* the canvas of ImageProcessor.resizeImage for an image of w x h pixels; the
\* intermediate height is the fraction hn / hd
resizeImage(w, h, maxWidth, maxHeight) ==
    LET w1 == IF w > maxWidth THEN maxWidth ELSE w
        hn == IF w > maxWidth THEN h * maxWidth ELSE h
        hd == IF w > maxWidth THEN w ELSE 1
    IN  IF hn > maxHeight * hd
        THEN [width |-> (w1 * maxHeight * hd) \div hn, height |-> maxHeight,
              optimised |-> TRUE]
        ELSE [width |-> w1, height |-> hn \div hd, optimised |-> TRUE]

RasterInit ==
    /\ raster = NoRaster
    /\ rasterRatio = [num |-> 4, den |-> 6]

\* the Apply Crop button: applyCrop sizes the canvas and draws the region
applyCropDraw ==
    /\ raster' = applyCropCanvas(aspectRatio)
    /\ rasterRatio' = aspectRatio
    /\ lastOp' = "applyCropDraw"
    /\ UNCHANGED <<wfState, cropVars, ingestVars, camVars, tplVars, bgVars, rlVars, homeVars>>

\* handleCropComplete: ImageProcessor.resizeImage(croppedUrl, 800, 1200, 0.9)
resizeImageDraw ==
    /\ raster # NoRaster
    /\ ~raster.optimised
    /\ raster' = resizeImage(raster.width, raster.height, 800, 1200)
    /\ lastOp' = "resizeImageDraw"
    /\ UNCHANGED rasterRatio
    /\ UNCHANGED <<wfState, cropVars, ingestVars, camVars, tplVars, bgVars, rlVars, homeVars>>

RasterNext ==
    \/ applyCropDraw
    \/ resizeImageDraw
    \/ \E p \in Points : handleMouseDown(p)
    \/ \E p \in Points : handleMouseMove(p)
    \/ handleMouseUp
    \/ zoomIn
    \/ zoomOut
    \/ rotateImage
    \/ resetCrop
    \/ \E r \in Ratios : setSelectedAspectRatio(r)

\* the components outside the photo capture components, at their start
ExtInit == RasterInit /\ TplInit /\ BgInit /\ RateLimitInit /\ HomeInit

InitRaster == WfInit /\ CropInit /\ IngestInit /\ CamInit /\ ExtInit

SpecRaster == InitRaster /\ [][RasterNext]_vars

InitTemplate == WfInit /\ CropInit /\ IngestInit /\ CamInit /\ ExtInit

SpecTemplate == InitTemplate /\ [][TemplateNext]_vars

InitBg == WfInit /\ CropInit /\ IngestInit /\ CamInit /\ ExtInit

SpecBgLive == InitBg /\ [][BgNext]_vars /\ BgFairness

InitRateLimit == WfInit /\ CropInit /\ IngestInit /\ CamInit /\ ExtInit

SpecRateLimit == InitRateLimit /\ [][RateLimitNext]_vars

InitHome == WfInit /\ CropInit /\ IngestInit /\ CamInit /\ ExtInit

SpecHome == InitHome /\ [][HomeNext]_vars

(***************************************************************************)
(* EnhancedPhotoCapture, camera: the operations                            *)
(***************************************************************************)
\* the file the upload button delivers while the camera is checked
CamFiles == {[type |-> "image/jpeg", size |-> 1024]}

\* the Open Camera button (step capture, disabled while isStreaming):
\* startCamera up to its await
startCamera ==
    /\ epcMounted
    /\ epcCurrentStep = "capture"
    /\ ~isStreaming
    /\ gumPending < MaxGum
    /\ gumPending' = gumPending + 1
    /\ lastOp' = "startCamera"
    /\ UNCHANGED extVars
    /\ UNCHANGED <<epcMounted, isStreaming, streamRef, trackStops, nextStream, cameraError>>
    /\ UNCHANGED <<wfState, cropVars, ingestVars>>

\* getUserMedia resolves: the rest of the try block of startCamera runs
getUserMediaResolved ==
    /\ gumPending > 0
    /\ nextStream <= MaxStreams
    /\ gumPending' = gumPending - 1
    /\ streamRef' = nextStream
    /\ nextStream' = nextStream + 1
    /\ IF videoRefCurrent
       THEN /\ isStreaming' = TRUE
            /\ epcActiveMode' = "capture"
       ELSE UNCHANGED <<isStreaming, epcActiveMode>>
    /\ lastOp' = "getUserMediaResolved"
    /\ UNCHANGED extVars
    /\ UNCHANGED <<epcMounted, trackStops, cameraError>>
    /\ UNCHANGED <<epcSelectedImage, epcCurrentStep, epcReaders,
                   spuSelectedImage, spuReaders, lastFile>>
    /\ UNCHANGED <<wfState, cropVars>>

\* getUserMedia rejects (permission denied, no camera): the catch block runs
getUserMediaRejected ==
    /\ gumPending > 0
    /\ gumPending' = gumPending - 1
    /\ cameraError' = startCameraCatch
    /\ lastOp' = "getUserMediaRejected"
    /\ UNCHANGED extVars
    /\ UNCHANGED <<epcMounted, isStreaming, streamRef, trackStops, nextStream>>
    /\ UNCHANGED <<wfState, cropVars, ingestVars>>

\* the component is torn down: the cleanup of the effect runs
epcUnmount ==
    /\ epcMounted
    /\ epcMounted' = FALSE
    /\ callStopCamera
    /\ lastOp' = "epcUnmount"
    /\ UNCHANGED extVars
    /\ UNCHANGED <<gumPending, nextStream, cameraError>>
    /\ UNCHANGED <<wfState, cropVars, ingestVars>>

\* reader.onload of handleFileUpload after the component was torn down: the
\* state setters of an unmounted component have no effect
epcReaderOnloadUnmounted(file) ==
    /\ ~epcMounted
    /\ file \in epcReaders
    /\ epcReaders' = epcReaders \ {file}
    /\ lastOp' = "epcReaderOnloadUnmounted"
    /\ UNCHANGED extVars
    /\ UNCHANGED <<epcActiveMode, epcSelectedImage, epcCurrentStep,
                   spuSelectedImage, spuReaders, lastFile>>
    /\ UNCHANGED <<wfState, cropVars, camVars>>

CameraNext ==
    \/ startCamera
    \/ getUserMediaResolved
    \/ getUserMediaRejected
    \/ epcUnmount
    \/ \E file \in CamFiles : handleFileUpload(file)
    \/ \E file \in CamFiles : epcReaderOnload(file)
    \/ \E file \in CamFiles : epcReaderError(file)
    \/ \E file \in CamFiles : epcReaderOnloadUnmounted(file)
    \/ resetAll

InitCamera == WfInit /\ CropParked /\ IngestInit /\ CamInit /\ ExtInit

SpecCamera == InitCamera /\ [][CameraNext]_vars

\* the browser settles every getUserMedia promise
CameraFairness == WF_vars(getUserMediaResolved \/ getUserMediaRejected)

SpecCameraLive == InitCamera /\ [][CameraNext]_vars /\ CameraFairness

InitIngest == WfInit /\ CropParked /\ IngestInit /\ CamInit /\ ExtInit

SpecIngest == InitIngest /\ [][IngestNext]_vars

InitCrop == WfInit /\ CropInit /\ IngestInit /\ CamInit /\ ExtInit

SpecCrop == InitCrop /\ [][CropNext]_vars

Init == WfInit /\ CropParked /\ IngestInit /\ CamInit /\ ExtInit

Next ==
    \/ handlePhotoCaptured
    \/ applyCrop
    \/ handleCropComplete
    \/ cropBlobNull
    \/ resizeResolved
    \/ resizeNeverSettles
    \/ handleEnhanceComplete
    \/ filtersResolved
    \/ filtersNeverSettle
    \/ applyTemplate
    \/ handleTemplateApplied
    \/ handleTemplateAppliedLate
    \/ templateFailed
    \/ templateFailedLate
    \/ handleFinalComplete
    \/ goNext
    \/ goPrev
    \/ resetWorkflow
    \/ removeBackground
    \/ onProcessed
    \/ bgNoBlob

Spec == Init /\ [][Next]_vars

(***************************************************************************)
(* The crop stage: the orchestrator together with the crop tool it mounts  *)
(***************************************************************************)
\* the condition under which MobileCropTool is rendered; the region is
\* adjusted here with the buttons of the tool and the Photo Type selector
cropToolShown == currentStep = "crop" /\ capturedImage # Empty

ReenterNext ==
    \/ handlePhotoCaptured
    \/ applyCrop
    \/ handleCropComplete
    \/ resizeResolved
    \/ goNext
    \/ goPrev
    \/ cropToolShown /\ zoomIn
    \/ cropToolShown /\ zoomOut
    \/ cropToolShown /\ rotateImage
    \/ cropToolShown /\ resetCrop
    \/ cropToolShown /\ \E r \in Ratios : setSelectedAspectRatio(r)

SpecReenter == Init /\ [][ReenterNext]_vars

\* every callback that the browser has queued runs, and every asynchronous
\* unit ends, by resolving or by failing
Fairness ==
    /\ WF_vars(handleCropComplete \/ cropBlobNull)
    /\ WF_vars(resizeResolved \/ resizeNeverSettles)
    /\ WF_vars(filtersResolved \/ filtersNeverSettle)
    /\ WF_vars(handleTemplateApplied \/ templateFailed)
    /\ WF_vars(handleTemplateAppliedLate \/ templateFailedLate)
    /\ WF_vars(onProcessed \/ bgNoBlob)

SpecLive == Init /\ [][Next]_vars /\ Fairness

(***************************************************************************)
(* Properties of the workflow orchestrator                                 *)
(***************************************************************************)
AllEmpty ==
    /\ capturedImage = Empty
    /\ croppedImage = Empty
    /\ enhancedImage = Empty
    /\ finalImage = Empty

\* C1: in every reachable state the current stage implies that its guard
\* artifact is present: crop => captured, enhance => cropped,
\* templates => enhanced, final => final image.
C1_StageImpliesArtifact ==
    /\ currentStep = "crop" => capturedImage # Empty
    /\ currentStep = "enhance" => croppedImage # Empty
    /\ currentStep = "templates" => enhancedImage # Empty
    /\ currentStep = "final" => finalImage # Empty

\* the guard of the transition out of the current stage, as the design states it
C2_GuardMet ==
    \/ currentStep = "capture" /\ capturedImage # Empty
    \/ currentStep = "crop" /\ croppedImage # Empty
    \/ currentStep = "enhance" /\ enhancedImage # Empty
    \/ currentStep = "templates" /\ finalImage # Empty

\* C2: a Next click whose guard is not met is a no-op: the stage and the four
\* artifacts (and everything else of the workflow) are unchanged.
C2_GoNextNoOp ==
    [][(lastOp' = "goNext" /\ ~C2_GuardMet) =>
          UNCHANGED <<currentStep, capturedImage, croppedImage, enhancedImage,
                      finalImage, processingStep, delivered>>]_vars

\* a Next click in stage capture with no captured image has happened
C2_Witness ==
    /\ lastOp = "goNext"
    /\ currentStep = "capture"
    /\ capturedImage = Empty

\* C3: once the workflow is in stage capture with all four artifacts empty
\* (the state resetWorkflow establishes), it stays so until a new photo is
\* captured, whatever asynchronous work completes.
C3_ResetStaysEmpty ==
    [][(AllEmpty /\ currentStep = "capture") =>
          \/ lastOp' = "handlePhotoCaptured"
          \/ AllEmpty' /\ currentStep' = "capture"]_vars

\* C4: every change of the current stage moves to the immediately next or
\* previous stage, except resetWorkflow.
C4_StrictlyLinear ==
    [][currentStep' # currentStep =>
          \/ lastOp' = "resetWorkflow"
          \/ indexOf(currentStep') = indexOf(currentStep) + 1
          \/ indexOf(currentStep') = indexOf(currentStep) - 1]_vars

\* C5: a Previous click moves the stage back by exactly one and leaves the
\* four artifacts unchanged; in stage capture it changes nothing.
C5_GoPrevFrame ==
    [][lastOp' = "goPrev" =>
          /\ UNCHANGED <<capturedImage, croppedImage, enhancedImage, finalImage>>
          /\ currentStep = "capture" => currentStep' = "capture"
          /\ currentStep # "capture" =>
                indexOf(currentStep') = indexOf(currentStep) - 1]_vars

\* Previous has moved back to crop and the cropped artifact is still held
C5_Witness ==
    /\ lastOp = "goPrev"
    /\ currentStep = "crop"
    /\ croppedImage # Empty

(***************************************************************************)
(* Properties of the crop tool                                             *)
(***************************************************************************)
\* C6: after initialisation and after any sequence of crop operations the
\* crop region lies inside the container: x >= 0, y >= 0,
\* x + width <= containerWidth and y + height <= containerHeight.
C6_RegionInsideContainer ==
    /\ cropData.x >= 0
    /\ cropData.y >= 0
    /\ cropData.x + cropData.width <= containerWidth
    /\ cropData.y + cropData.height <= ContainerHeight

\* C7: after any sequence of pinch moves, zoomIn and zoomOut the zoom is a
\* number in [0.5, 3.0].
C7_ZoomInRange ==
    /\ ~cropData.zoom.nan
    /\ cropData.zoom.val >= ZoomMin
    /\ cropData.zoom.val <= ZoomMax

\* C8: isDragging and isPinching are never both true.
C8_OneModeAtATime == ~(isDragging /\ isPinching)

\* C17: the rotation is always one of 0, 90, 180, 270; rotateImage changes
\* no other field of the crop data, and four successive rotations give back
\* the crop data they started from.
C17_RotationWraps ==
    /\ [](/\ cropData.rotation \in {0, 90, 180, 270}
          /\ rotateImageUpdater(rotateImageUpdater(rotateImageUpdater(
                 rotateImageUpdater(cropData)))) = cropData)
    /\ [][lastOp' = "rotateImage" =>
            /\ cropData' = [cropData EXCEPT !.rotation = cropData'.rotation]
            /\ cropData'.rotation # cropData.rotation]_vars

\* the fourth rotation in a row has brought the rotation back to 0
C17_Witness ==
    /\ lastOp = "rotateImage"
    /\ events = 4
    /\ cropData.rotation = 0

\* the default region of the design: 80% of the container width at the active
\* aspect ratio, centred, zoom 1, rotation 0
C18_DefaultRegion(w, r) ==
    LET cropWidth == (w * 8) \div 10
        cropHeight == divRatio(cropWidth, r)
    IN  [x |-> (w - cropWidth) \div 2, y |-> (ContainerHeight - cropHeight) \div 2,
         width |-> cropWidth, height |-> cropHeight, zoom |-> Num(10), rotation |-> 0]

\* C18: resetCrop restores the default region (80% of the container width,
\* height by the active aspect ratio, centred, zoom 1, rotation 0), which is
\* the region the initialisation produces for the same container and ratio.
C18_ResetRestoresDefault ==
    [][lastOp' = "resetCrop" =>
          /\ cropData' = C18_DefaultRegion(containerWidth, aspectRatio)
          /\ cropData' = initCropArea(DefaultCropData, containerWidth, aspectRatio)]_vars

(***************************************************************************)
(* Properties of file ingestion                                            *)
(***************************************************************************)
\* the MIME types the design accepts (jpeg, png, webp, optionally heic), with
\* the image/jpg alias
C9_SupportedTypes ==
    {"image/jpeg", "image/jpg", "image/png", "image/webp", "image/heic"}

\* C9: a file whose MIME type is not a supported image type is rejected on
\* both ingestion paths: no reader is started and the selected image, the
\* current step and the active mode are unchanged.
C9_UnsupportedRejected ==
    [][(lastOp' \in {"handleFileUpload", "handleFileSelect"}
        /\ lastFile'.type \notin C9_SupportedTypes) =>
          UNCHANGED <<epcSelectedImage, epcCurrentStep, epcActiveMode, epcReaders,
                      spuSelectedImage, spuReaders>>]_vars

\* a GIF has been offered to the file input of EnhancedPhotoCapture and
\* nothing is selected or being read
C9_Witness ==
    /\ lastOp = "handleFileUpload"
    /\ lastFile.type = "image/gif"
    /\ epcSelectedImage = Null
    /\ epcReaders = {}

\* C10: a file of a type the path supports is rejected, with no reader started
\* and unchanged state, exactly when its size exceeds 10 MiB; an accepted file
\* becomes the selected image when its reader has loaded it.
C10_SizeLimit ==
    /\ [][(lastOp' = "handleFileUpload" /\ lastFile'.type \in epcSupportedTypes) =>
            /\ lastFile'.size > 10 * 1024 * 1024 =>
                  UNCHANGED <<epcSelectedImage, epcCurrentStep, epcActiveMode, epcReaders>>
            /\ lastFile'.size <= 10 * 1024 * 1024 => lastFile' \in epcReaders']_vars
    /\ [][(lastOp' = "handleFileSelect" /\ lastFile'.type \in spuSupportedTypes) =>
            /\ lastFile'.size > 10 * 1024 * 1024 =>
                  UNCHANGED <<spuSelectedImage, spuReaders>>
            /\ lastFile'.size <= 10 * 1024 * 1024 => lastFile' \in spuReaders']_vars
    /\ [][\A file \in Files :
            /\ (lastOp' = "epcReaderOnload" /\ file \in epcReaders /\ file \notin epcReaders')
                  => epcSelectedImage' = file
            /\ (lastOp' = "spuReaderOnload" /\ file \in spuReaders /\ file \notin spuReaders')
                  => spuSelectedImage' = file]_vars

\* a file of exactly 10 MiB has become the selected image of EnhancedPhotoCapture
C10_Witness ==
    /\ lastOp = "epcReaderOnload"
    /\ epcSelectedImage # Null
    /\ epcSelectedImage.size = 10 * 1024 * 1024

(***************************************************************************)
(* Properties of the camera of EnhancedPhotoCapture                        *)
(***************************************************************************)
\* the operations whose code calls stopCamera()
C11_StopCallers == {"epcReaderOnload", "resetAll", "epcUnmount"}

\* C11: stopCamera is idempotent: called with no stream held it changes
\* nothing, called twice in a row it leaves the state of one call, and the
\* track of every stream is stopped at most once.
C11_StopCameraIdempotent ==
    /\ [](/\ stopCamera(stopCamera(camState)) = stopCamera(camState)
          /\ streamRef = NoStream => stopCamera(camState) = camState
          /\ \A s \in Streams : trackStops[s] <= 1)
    /\ [][(lastOp' \in C11_StopCallers /\ streamRef = NoStream) =>
             UNCHANGED <<streamRef, isStreaming, trackStops>>]_vars

\* stopCamera has run a second time in a row (file loaded, then Reset) after
\* the first run stopped the track of an acquired stream
C11_Witness ==
    /\ lastOp = "resetAll"
    /\ streamRef = NoStream
    /\ \E s \in Streams : trackStops[s] = 1

unreleased == (1..(nextUrl - 1)) \ revoked

\* C12: the object URLs of the workflow that are allocated and not released
\* are at most one per stage artifact, because installing an artifact
\* releases the one it replaces and resetWorkflow releases all of them.
C12_AtMostOnePerStage == Cardinality(unreleased) <= Len(steps)

(***************************************************************************)
(* Properties of the asynchronous stage units                              *)
(***************************************************************************)
\* the asynchronous stage units that are outstanding: crop optimisation,
\* filtering, template application
stageUnits == resizing + filtering + templating + templatingOld

\* C13: no pipeline operation is re-entrant: at most one asynchronous stage
\* unit is outstanding at any time, and no Next click moves the stage while
\* one is outstanding.
C13_NoReentrancy ==
    /\ [](stageUnits <= 1)
    /\ [][(lastOp' = "goNext" /\ stageUnits > 0) => currentStep' = currentStep]_vars

(***************************************************************************)
(* Properties of the failure paths                                         *)
(***************************************************************************)
\* C14: when the source image fails to decode or no blob is produced while a
\* template is applied, onTemplateApplied is not called: the final image,
\* the stage and the other artifacts are unchanged, no URL is allocated, and
\* isProcessing of the template component is false again.
C14_TemplateFailureLeavesArtifacts ==
    /\ [][lastOp' = "templateFailed" =>
            /\ UNCHANGED <<currentStep, capturedImage, croppedImage, enhancedImage,
                           finalImage, delivered, nextUrl>>
            /\ tplIsProcessing' = FALSE]_vars
    /\ [][lastOp' = "templateFailedLate" =>
            UNCHANGED <<currentStep, capturedImage, croppedImage, enhancedImage,
                        finalImage, delivered, nextUrl>>]_vars

\* a template application has failed in stage templates, after an earlier
\* template had been applied and the user had returned with Previous
C14_Witness ==
    /\ lastOp = "templateFailed"
    /\ currentStep = "templates"
    /\ finalImage # Empty
    /\ ~tplIsProcessing

\* C15: when the image handed to handleCropComplete or handleEnhanceComplete
\* cannot be decoded or encoded, the stage and the four artifacts are
\* unchanged and the processing indicator is eventually cleared.
C15_FailureReturnsControl ==
    /\ [][lastOp' \in {"resizeNeverSettles", "filtersNeverSettle"} =>
            UNCHANGED <<currentStep, capturedImage, croppedImage, enhancedImage,
                        finalImage>>]_vars
    /\ [](lastOp \in {"resizeNeverSettles", "filtersNeverSettle"} =>
            <>(processingStep = ""))

(***************************************************************************)
(* Properties of stage final                                               *)
(***************************************************************************)
\* C16: once stage final is entered the stage stays final until
\* resetWorkflow: no Previous or Next click and no completion of earlier
\* asynchronous work moves the stage away from final.
C16_FinalUntilReset ==
    [][(currentStep = "final" /\ currentStep' # "final") =>
          lastOp' = "resetWorkflow"]_vars

(***************************************************************************)
(* Properties of re-entering stage crop                                    *)
(***************************************************************************)
\* C19: when the user returns to stage crop with Previous, the crop tool
\* shows the crop region that was last set (x, y, width, height, zoom,
\* rotation), not a fresh default one.
C19_ReenterKeepsRegion ==
    [][(lastOp' = "goPrev" /\ currentStep = "enhance" /\ cropToolShown') =>
          cropData' = cropData]_vars

(***************************************************************************)
(* Properties of the cropped raster                                        *)
(***************************************************************************)
\* C21: whatever the region, the zoom and the rotation, the raster that
\* applyCrop produces has the selected aspect ratio within 1 px of rounding
\* (its height is within 1 px of width / r), and resizeImage(.., 800, 1200)
\* keeps that.
C21_RasterHasRatio ==
    raster # NoRaster =>
        Abs(raster.width * rasterRatio.den - raster.height * rasterRatio.num)
            <= rasterRatio.num

\* the passport raster, 400 x 600, has been optimised after the region was
\* zoomed
C21_Witness ==
    /\ lastOp = "resizeImageDraw"
    /\ rasterRatio = [num |-> 4, den |-> 6]
    /\ raster = [width |-> 400, height |-> 600, optimised |-> TRUE]
    /\ cropData.zoom # Num(10)

(***************************************************************************)
(* Properties of the gestures of the crop tool                             *)
(***************************************************************************)
\* C22: on a touch end the tool is idle if no pointer remains; if exactly one
\* pointer remains while pinching, pinching is demoted to dragging and the
\* drag offset is re-anchored to the remaining pointer minus the region
\* origin, so that the next move of that pointer does not make the region
\* jump: a touchmove that reports the pointer where it is leaves the region.
C22_TouchEndReanchors ==
    /\ [][lastOp' = "handleTouchEnd" =>
            /\ Len(touches') = 0 => (~isDragging' /\ ~isPinching')
            /\ (Len(touches') = 1 /\ isPinching) =>
                  /\ ~isPinching'
                  /\ isDragging'
                  /\ dragStart' = <<touches'[1][1] - cropData.x,
                                    touches'[1][2] - cropData.y>>]_vars
    /\ [][(/\ lastOp = "handleTouchEnd"
           /\ Len(touches) = 1
           /\ isDragging
           /\ lastOp' = "handleTouchMove"
           /\ touches' = touches) =>
             cropData' = cropData]_vars

\* C23: the width / height of the crop region always equals the active
\* aspect ratio: after mounting, after any drag, pinch, zoom, rotation or
\* reset, and after another aspect ratio is selected.
C23_RegionHasActiveRatio ==
    cropData.width * aspectRatio.den = cropData.height * aspectRatio.num

\* another aspect ratio has been selected after a reset, and the region has
\* been re-normalised to it
C23_Witness ==
    /\ lastOp = "setSelectedAspectRatio"
    /\ aspectRatio = [num |-> 3, den |-> 4]
    /\ cropData.height = 400
    /\ cropData.rotation = 90

(***************************************************************************)
(* Properties of the canvas of CVPhotoTemplates                            *)
(***************************************************************************)
\* the part of the canvas a draw call paints reaches into rectangle r: a fill
\* paints its rectangle, a stroke paints a band of lineWidth around its path
paintsOver(o, r) ==
    IF o.op = "strokeRect"
    THEN \/ r.x < o.rect.x + o.lineWidth \div 2
         \/ r.y < o.rect.y + o.lineWidth \div 2
         \/ r.x + r.width > o.rect.x + o.rect.width - o.lineWidth \div 2
         \/ r.y + r.height > o.rect.y + o.rect.height - o.lineWidth \div 2
    ELSE /\ o.rect.x < r.x + r.width
         /\ r.x < o.rect.x + o.rect.width
         /\ o.rect.y < r.y + r.height
         /\ r.y < o.rect.y + o.rect.height

\* background first, then the subject with the effects of the template, then
\* the frame with the filter reset, when applyTemplate has just drawn
C24_OrderAndFilters ==
    lastOp = "applyTemplateDraw" =>
        LET t == CHOOSE u \in photoTemplates : u.id = selectedTemplate
        IN  /\ Len(tplCanvas) = IF t.frame = "none" THEN 2 ELSE 3
            /\ tplCanvas[1].op = "fillRect" /\ tplCanvas[1].filter = <<>>
            /\ tplCanvas[1].rect.x = 0 /\ tplCanvas[1].rect.y = 0
            /\ tplCanvas[2].op = "drawImage" /\ tplCanvas[2].filter = t.filters
            /\ \A k \in 3..Len(tplCanvas) :
                   tplCanvas[k].op # "drawImage" /\ tplCanvas[k].filter = <<>>

\* C24: in applyTemplate the draw operations are ordered background, subject
\* (with the effects on the subject draw only), frame with the unfiltered
\* draw state; the frame draw does not paint over the subject, for a shadow
\* frame the drop-shadow rectangle lies behind the subject.
C24_FrameBehindSubject ==
    /\ C24_OrderAndFilters
    /\ \A k \in 3..Len(tplCanvas) : ~paintsOver(tplCanvas[k], tplCanvas[2].rect)

(***************************************************************************)
(* Properties of the release of artifacts                                  *)
(***************************************************************************)
\* C25: an artifact is never released while it is still the current artifact
\* of a stage: the URL that EnhancedPhotoCapture hands over through
\* onPhotoComplete, which becomes the captured image, is not revoked by the
\* cleanup of EnhancedPhotoCapture when that component is torn down.
C25_CurrentNotReleased ==
    capturedImage # Empty => capturedImage \notin revoked

(***************************************************************************)
(* Properties of the background removal                                    *)
(***************************************************************************)
\* what the user does to the orchestrator
BgUserOps == {"setEnhancedImage", "orchestratorRender", "bgUnmount"}

\* no run of removeBackground is due or working
bgQuiescent == ~bgEffectDue /\ bgLoading = {}

\* C26: background removal reaches quiescence: once the user leaves the
\* orchestrator alone after the enhanced image was installed, the hidden
\* BackgroundRemoval component processes it a bounded number of times and the
\* enhanced image eventually stops changing.
C26_BackgroundRemovalQuiesces ==
    <>[](lastOp \notin BgUserOps) => <>[](bgQuiescent)

(***************************************************************************)
(* Properties of the camera stream                                         *)
(***************************************************************************)
\* isStreaming is never true: the only setIsStreaming(true) is behind
\* videoRef.current, and the video element exists only while isStreaming
NeverStreaming == ~isStreaming

\* C27: when startCamera succeeds in acquiring a stream, the capture component
\* eventually enters the streaming state (isStreaming = true), unless it is
\* torn down or leaves its capture step first.
C27_AcquiredLeadsToStreaming ==
    (lastOp = "getUserMediaResolved" /\ epcMounted /\ epcCurrentStep = "capture")
        ~> (isStreaming \/ ~epcMounted \/ epcCurrentStep # "capture")

\* C28: every camera stream acquired by startCamera is stopped no later than
\* component teardown: no acquired stream is left running without a
\* reference to it, also when startCamera is invoked again while a stream is
\* held or pending, and when teardown happens while the acquisition is pending.
C28_NoStreamLeftRunning ==
    \A s \in Streams :
        s < nextStream =>
            \/ trackStops[s] > 0
            \/ s = streamRef /\ epcMounted

(***************************************************************************)
(* Properties of the rate limiter                                          *)
(***************************************************************************)
\* C29: for each client ip, checkRateLimit admits at most 10 requests between
\* the start of a window and its reset time 60 s later: the 11th and every
\* later request in that window is rejected without changing the counter,
\* the first request after the reset time is admitted and starts a new
\* window with count 1, and a request of one ip never changes the counter of
\* another ip.
C29_TenPerWindow ==
    /\ [](\A ip \in IPs : admittedInWindow[ip] <= 10)
    /\ [][lastOp' = "checkRateLimit" =>
            LET ip == lastCheck'.ip
                inWindow == windowOpened[ip] >= 0
                            /\ clock <= windowOpened[ip] + WindowTicks
            IN  /\ (inWindow /\ admittedInWindow[ip] >= 10) =>
                       ~lastCheck'.ok /\ rateLimitMap' = rateLimitMap
                /\ (windowOpened[ip] >= 0 /\ ~inWindow) =>
                       /\ lastCheck'.ok
                       /\ rateLimitMap'[ip].count = 1
                       /\ rateLimitMap'[ip].resetTime = clock + WindowTicks
                /\ \A other \in IPs \ {ip} :
                       rateLimitMap'[other] = rateLimitMap[other]]_vars

\* the 11th request of one ip is rejected on the reset time of its window
\* while the other ip has a window of its own with three admitted requests
C29_Witness ==
    /\ lastOp = "checkRateLimit"
    /\ lastCheck = [ip |-> "10.0.0.1", ok |-> FALSE]
    /\ admittedInWindow["10.0.0.1"] = 10
    /\ clock = rateLimitMap["10.0.0.1"].resetTime
    /\ rateLimitMap["10.0.0.2"].count = 3
    /\ rateLimitMap["10.0.0.2"].resetTime > clock

(***************************************************************************)
(* Properties of the data kept per user                                    *)
(***************************************************************************)
\* C30: per-user data is isolated across sessions on one browser: the
\* currentCV a signed-in user gets holds no data of another user (it is the
\* user's own backed-up CV or none), and no logout stores data of another
\* user in user_backup_<email>.
C30_PerUserIsolation ==
    /\ session # NoSession => currentCV \cap (Users \ {session}) = {}
    /\ \A u \in Users : userBackup[u] \cap (Users \ {u}) = {}

====
